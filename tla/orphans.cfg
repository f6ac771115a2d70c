SPECIFICATION FairSpec
CONSTANTS
  Sources = {a}
  NoSource = none
  Controllers = {c1}
  Engines = {e1, e2}
  NoEngine = nil
  GPU = TRUE
  Delivering = {a}
  Operations = {"ftb", "ftb_again", "cut", "cut_override", "abort", "tbar", "preview", "unregister"}
  Patient = TRUE
PROPERTIES OrphanReaped
