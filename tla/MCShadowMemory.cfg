SPECIFICATION ShadowSpec
CONSTANT AddressSpace = 6
INVARIANTS WellOrdered
PROPERTY ImplementsTable
