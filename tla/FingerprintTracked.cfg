\* One page and one parameter, which tracks.
CONSTANTS
  Pages = {a}
  Params = {1}
  Tracking = {1}
  MaxParams = 1
SPECIFICATION Spec
INVARIANT SharedLinkDedupes
