SPECIFICATION ExecSpec
CONSTANTS
  Proc = {p1}
  i1 = i1 i2 = i2 i3 = i3 i4 = i4
  k1 = k1 k2 = k2
  d1 = d1 d2 = d2 d3 = d3 d4 = d4
  t1 = t1 t2 = t2
  OperationId <- MCOperationId
  Key <- MCKey
  Digest <- MCDigest
  Requests <- MCRequests
  Terms <- MCTerms
  Limited <- MCLimited
  TermsOf <- MCTermsOf
  Creates <- MCCreates
  NoProc = NoProc
  NoRequest = NoRequest
  NoReceipt = NoReceipt
  NoPost = NoPost
INVARIANTS DisableHolds ProvisionHolds
PROPERTIES KeepsContract NewestDecides
