SPECIFICATION RPSpec
INVARIANT DataRenameCoversSubtree
