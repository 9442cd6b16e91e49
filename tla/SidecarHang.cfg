SPECIFICATION HungSpec
CONSTANTS
  k1 = k1
  k2 = k2
  k3 = k3
  v1 = v1
  v2 = v2
  t1 = t1
  t2 = t2
  Threads = {t1, t2}
  Folds = {k1, k2}
  Ruby <- TwoFolds
  Declined = Declined
  Ready = Ready
  Cut = Cut
  Nobody = Nobody
  MaxCalls = 2
PROPERTY FoldsReturn
CHECK_DEADLOCK FALSE
