SPECIFICATION Spec
INVARIANT DataBlocksInBlockOrder
INVARIANT DataKeyBlockNumRoundTrip
INVARIANT DataKeysOfNameContiguous
INVARIANT SharePrefixIsSameName
INVARIANT ReaddirRunIsContiguous
INVARIANT DirectlyUnderIsChild
INVARIANT RenameCheckSelectsSubtree
