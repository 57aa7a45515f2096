\* Two mounts, two names, paths of two steps, and a number for one more file
\* than there is at first.  A reply to readdir has room for ".", ".." and one
\* file: some listings fit and some do not.
CONSTANTS
    n1 = n1
    n2 = n2
    i1 = i1
    i2 = i2
    StartTree <- SmallTree
    Names = {n1, n2}
    Inodes = {i1, i2, i3}
    ROOT_INODE = root
    MaxDepth = 2
    Mounts = {m1, m2}
    DirBuffer = 3
    MaxRequests = 3
SPECIFICATION FuseSpec
INVARIANT FuseTypeOK
PROPERTY ExactUntilDirectory
PROPERTY ErrorsTrue
PROPERTY ActsOnFound
PROPERTY ListingComplete
PROPERTY RequestsEnd
\* Once MaxRequests requests are made the model stops.
CHECK_DEADLOCK FALSE
