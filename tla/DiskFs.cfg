\* Two names, paths of two steps, and as many inode numbers as two directories
\* with a file each, or a moved directory and its replacement, need.
CONSTANTS
    Names = {n1, n2}
    Inodes = {i1, i2, i3, i4}
    ROOT_INODE = root
    MaxDepth = 2
SPECIFICATION Spec
SYMMETRY Symmetry
INVARIANT TypeOK
PROPERTY StaleOnlyByDirectory
PROPERTY RenameLosesOnlyDestination
\* RM_REQ of ROOT_INODE removes the exported directory, and then nothing works.
CHECK_DEADLOCK FALSE
