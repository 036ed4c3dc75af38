\* Every set of cards in use, every size, every policy.
CONSTANTS
    spider = spider
    board = board
    pcie = pcie
    plain = plain
    shares = shares
    mim = mim
    mimRuntime = mimRuntime
    Name = {spider, board, pcie, plain, shares, mim, mimRuntime}
    Node <- Nodes
    Policy = {"best-effort", "restricted", "guaranteed"}
    None = None
SPECIFICATION Spec
INVARIANTS
    TypeOK
    PreferenceFits
    BoardsKept
    PolicyKept
    ServesWhatItCan
    SharesBalanced
    ContainerSeesItsDevices
