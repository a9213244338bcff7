\* A heap of six items with three keys; two lists with five nodes; a queue of up to
\* five objects in frames of two; a tree of up to eight nodes; a buffer of up to six
\* bytes; a slab of two frames of two objects; a map of three nodes in two slots.
CONSTANTS
    it1 = it1
    it2 = it2
    it3 = it3
    it4 = it4
    it5 = it5
    it6 = it6
    Item = {it1, it2, it3, it4, it5, it6}
    Key = {0, 1, 2}
    POS_NULL = POS_NULL
    NoItem = NoItem
    List = {l1, l2}
    Node = {n1, n2, n3, n4, n5}
    NULL = NULL
    Obj = {o1, o2}
    Junk = Junk
    NoObj = NoObj
    obj_per_frame = 2
    MaxCount = 5
    TreeNode = {1, 2, 3, 4, 5, 6, 7, 8}
    tnil = tnil
    Byte = {x, y}
    Dirt = Dirt
    InitSize = 1
    MinExtend = 2
    MaxExtend = 3
    MaxLimit = 0
    MaxLen = 2
    BufSpan = 7
    Block = {b1, b2}
    bulk_num = 2
    obj_size = 2
    frame_size = 5
    SlabSpan = 16
    HNode = {h1, h2, h3}
    HKey = {0, 1, 2}
    NoNode = NoNode
    NoKey = NoKey
    sll_num = 2
    hash <- Hash
SPECIFICATION AllSpec
SYMMETRY Symmetry
INVARIANTS HeapSound WellLinked QueueSound TreeSound BufferSound SlabSound MapSound
PROPERTIES QueueSpec ListsSpec DequeSpec SortedSpec
