\* A board of model 8H-095U, whose best combination of four cards has six rings.
CONSTANTS
    spider = spider
    board = board
    pcie = pcie
    plain = plain
    shares = shares
    mim = mim
    mimRuntime = mimRuntime
    Name = {board}
    Node <- Nodes
    Policy = {"restricted"}
    None = None
SPECIFICATION Spec
INVARIANT RestrictedIsBest
