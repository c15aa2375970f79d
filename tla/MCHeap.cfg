CONSTANTS
  HeapSize = 280
  ALIGN = 4
  MIN_SIZE = 16
  HEADER_SIZE = 24
  SizeofChunk = 40
  NUM_SIZES = 9
  SlotFloor <- MCSlotFloor
  Sizes = {1, 20, 33}
  None = None
SPECIFICATION Spec
INVARIANTS ChunksTile FreeListsExact Coalesced HeldAreUsed
PROPERTY Implements
