SPECIFICATION Spec
CONSTANTS
  Proc = {p1, p2}
  i1 = i1 i2 = i2 i3 = i3 i4 = i4
  k1 = k1 k2 = k2
  d1 = d1 d2 = d2 d3 = d3 d4 = d4 d5 = d5
  OperationId <- MCOperationId
  Key <- MCKey
  Digest <- MCDigest
  Requests <- MCRequests
  NoProc = NoProc
  NoRequest = NoRequest
  NoReceipt = NoReceipt
SYMMETRY Symmetry
INVARIANTS JournalStaysValid AtMostOnce NoOverlap AnswersHold
PROPERTIES SendsInOrder RevokeIsFinal ImplementsNode
